---- MODULE Spec2Model ----
(***************************************************************************)
(* The crawl job manager of crawler/manager/crawler_manager.py as a state  *)
(* machine.  One CrawlerManager runs on one asyncio event loop: code       *)
(* between two awaits runs atomically, so every action below is the code   *)
(* from one suspension point of a coroutine to its next one.               *)
(*                                                                         *)
(* Job ids are 1, 2, ... in creation order (the code draws uuid4 strings). *)
(* URLs of the crawled site are 1 .. Len(site), in the order crawl()       *)
(* returns them.  A timestamp of a job is 0 for None and otherwise the     *)
(* ordinal of the datetime.now() call, among those made for that job, that *)
(* produced it.  An error string is kept as its kind: "fetch" for          *)
(* "Failed to extract content from {url}: ..." and "exception" for str(e). *)
(***************************************************************************)
EXTENDS Integers, Sequences, FiniteSets, Bags, TLC

\* CrawlerManager.__init__: self.max_concurrent_jobs = 3
max_concurrent_jobs == 3
\* _run_job / _resume_job: batch_size = 10
batch_size == 10

\* Bounds of the model: the jobs created, the pipelines launched, the URLs of
\* a site, the process restarts and the websites of one run.
MaxJobs == 2
MaxTasks == 3
MaxUrls == 2
MaxRestarts == 1
MaxWebsites == 1
\* Jobs created beyond max_concurrent_jobs in the runs that fill the cap.
ExtraJobs == 1

\* CrawlerManager.__init__: self.default_crawl_delay = 1.0 (seconds)
default_crawl_delay == 1
\* Bounds of the runs of the rate limiter: the clock ticks in a second, the
\* last tick, the extractors at work at the same time (one per pipeline),
\* and the URLs of the batch each of them is handed.
TicksPerSecond == 2
MaxTime == 3
MaxExtractors == 2
MaxBatch == 3
\* URLs beyond the first full batch
MaxTail == 1
\* lines of a robots.txt
MaxLines == 4
\* sitemap documents of a website, and entries of one document
MaxSitemaps == 3
MaxLocs == 2
\* links of one page
MaxLinks == 2
\* the largest max_pages handed to crawl()
MaxPagesArg == 3
\* jobs and pipelines of the runs checked for termination
MaxLiveJobs == 2
MaxLiveTasks == 2

Websites == 1 .. MaxWebsites

\* The runs checked: one job with MaxTasks pipelines, or MaxJobs jobs with one
\* pipeline fewer.
Runs ==
    {[jobs |-> 1, tasks |-> MaxTasks, urls |-> MaxUrls,
      restarts |-> MaxRestarts, faults |-> TRUE],
     [jobs |-> MaxJobs, tasks |-> MaxTasks - 1, urls |-> MaxUrls,
      restarts |-> MaxRestarts, faults |-> TRUE]}

\* The runs that fill the concurrency cap: more jobs than the cap admits on a
\* site without URLs, beside a run of one job on a site with one URL that
\* goes through a restart.
CapRuns ==
    {[jobs |-> max_concurrent_jobs + ExtraJobs, tasks |-> max_concurrent_jobs + 1,
      urls |-> 0, restarts |-> 0, faults |-> TRUE],
     [jobs |-> 1, tasks |-> 1, urls |-> 1, restarts |-> 1, faults |-> TRUE]}

\* One job of one full batch and a tail, through one pipeline and a restart,
\* on a storage whose writes succeed (faults tells whether the content file
\* and the Page row may fail to be written).
BatchRuns ==
    {[jobs |-> 1, tasks |-> 1, urls |-> batch_size + MaxTail,
      restarts |-> MaxRestarts, faults |-> FALSE]}

\* The runs of one process that lives on: no restart.
LiveRuns ==
    {[jobs |-> MaxLiveJobs, tasks |-> MaxLiveTasks, urls |-> 1, restarts |-> 0,
      faults |-> TRUE]}

VARIABLES
    lim,          \* the bounds of this run (never changes)
    site,         \* the URLs crawl() discovers on a website, in order
    jobs,         \* CrawlerManager.jobs: job id -> CrawlerJob
    active_jobs,  \* CrawlerManager.active_jobs
    disk,         \* <storage_dir>/jobs/<id>.json: job id -> saved record
    content,      \* <storage_dir>/content/<website_id>/<hash(url)>.json
    tasks,        \* the pipeline coroutines that have not returned (a bag)
    spawned,      \* the number of asyncio.create_task calls made so far
    seed,         \* the process incarnation: the salt of hash(str)
    pages,        \* the rows of the pages table, in id order
    ret,          \* the latest start_job/stop_job/resume_job call: its name,
                  \* its job id and its outcome
    now,          \* time.time(), in ticks
    last_request_time,  \* per extractor: self.last_request_time of the one
                        \* domain crawled, <<>> while the domain is no key
    fetches,      \* per extractor and URL of its batch: the fetch_url call
    requests,     \* the session.get calls made: who, for which URL, when
    web,          \* the website crawled: robots.txt, sitemaps, pages, links
    crawler,      \* one EnhancedSitemapCrawler.crawl() call: its position,
                  \* its locals and what it has fetched and returned
    verdict       \* the latest RobotsParser.is_allowed call: URL and result

job_vars == <<lim, site, jobs, active_jobs, disk, content, tasks, spawned, seed,
              pages, ret>>
rate_vars == <<now, last_request_time, fetches, requests>>
crawl_vars == <<web, crawler, verdict>>
vars == <<lim, site, jobs, active_jobs, disk, content, tasks, spawned, seed,
          pages, ret, now, last_request_time, fetches, requests, web, crawler,
          verdict>>

Extractors == 1 .. MaxExtractors

\* no start_job, stop_job or resume_job call has been made in this process
NoCall == <<"none", 0, "none">>

Min(a, b) == IF a < b THEN a ELSE b
Max(a, b) == IF a > b THEN a ELSE b

\* CrawlerJob.__init__
CrawlerJob(website_id) ==
    [website_id |-> website_id, status |-> "pending",
     start_time |-> 0, end_time |-> 0,
     total_urls |-> 0, processed_urls |-> 0,
     successful_urls |-> 0, failed_urls |-> 0, errors |-> <<>>]

\* datetime.now() as read for a job: later than every time the job holds.
Now(job) == Max(job.start_time, job.end_time) + 1

\* A coroutine that has returned: it leaves the bag of tasks.
DoneTask == [job |-> 0, kind |-> "none", body |-> "none", pc |-> "done",
             urls |-> <<>>, processed |-> {}, i |-> 0, k |-> 0]

\* asyncio.create_task(self._run_job(job)) / (self._resume_job(job)): kind is
\* the coroutine launched, body the function whose loop it executes
\* (_resume_job delegates to _run_job when the job has no URL data).
NewTask(j, kind) == [job |-> j, kind |-> kind, body |-> kind, pc |-> "created",
                     urls |-> <<>>, processed |-> {}, i |-> 0, k |-> 0]

\* The tasks are kept as a bag of their states: two coroutines in the same
\* state are interchangeable.
LiveTasks == BagToSet(tasks)
Spawn(t) == tasks (+) SetToBag({t})
Replace(t, u) ==
    IF u.pc = "done" THEN tasks (-) SetToBag({t})
    ELSE (tasks (-) SetToBag({t})) (+) SetToBag({u})

(***************************************************************************)
(* The website as the crawler sees it.  The URLs of the one domain are     *)
(* written as their paths and a path as the sequence of its characters, so *)
(* that str.startswith is the prefix order of sequences.                   *)
(***************************************************************************)

\* CrawlerManager.__init__ 63, handed to EnhancedSitemapCrawler and from
\* there to RobotsParser
user_agent == "RAGCrawlerBot/1.0"

\* self.base_url = base_url.rstrip('/'): its path is empty
base_url == <<>>
Root == <<"/">>
SlashP == <<"/", "p">>
PrivateDir == <<"/", "p", "r", "i", "v", "a", "t", "e", "/">>
PrivatePage == PrivateDir \o <<"p", "a", "g", "e">>
Public == <<"/", "p", "u", "b", "l", "i", "c">>
Urls == {base_url, Root, Public, PrivatePage}

\* a line of robots.txt after the split at its first ":"
Line(d, v) == [directive |-> d, value |-> v]
RobotsLines ==
    {Line("user-agent", a) : a \in {"RAGCrawlerBot/1.0", "RAGCrawlerBot", "*", ""}}
    \cup {Line("disallow", v) : v \in {<<>>, Root, SlashP, PrivateDir}}
    \cup {Line("crawl-delay", v) : v \in {"2", "soon"}}
    \cup {Line("allow", Public)}

\* a sitemap URL is the number of its document; a document that does not
\* answer 200 has no content
Sitemaps == 1 .. MaxSitemaps
Missing == [ok |-> FALSE, kind |-> "urlset", locs |-> <<>>]

\* a website without robots.txt, sitemaps or pages
NoWeb == [robots_txt |-> <<>>,
          sitemaps |-> [s \in Sitemaps |-> Missing],
          links |-> [u \in Urls |-> {}],
          fetchable |-> {}]

\* crawl(max_pages) has not been called
IdleCrawler(max_pages) ==
    [pc |-> "idle", max_pages |-> max_pages, sitemap_url |-> 0,
     to_crawl |-> {}, crawled |-> {}, results |-> <<>>, fetched |-> <<>>,
     via |-> "none"]

NoVerdict == [url |-> <<>>, allowed |-> TRUE, crawl_delay |-> 0]

\* The runs of the manager and of the rate limiter crawl no website here.
StartCrawl ==
    /\ web = NoWeb
    /\ crawler = IdleCrawler(MaxPagesArg)
    /\ verdict = NoVerdict

Start ==
    /\ site \in {[u \in 1 .. n |-> u] : n \in 0 .. lim.urls}
    /\ jobs = <<>>
    /\ active_jobs = {}
    /\ disk = <<>>
    /\ content = {}
    /\ tasks = EmptyBag
    /\ spawned = 0
    /\ seed = 0
    /\ pages = <<>>
    /\ ret = NoCall

\* EnhancedHTMLContentExtractor.__init__ for each extractor, and no batch
\* handed to extract_from_urls yet
StartRate ==
    /\ now = 0
    /\ last_request_time = [e \in Extractors |-> <<>>]
    /\ fetches = [e \in Extractors |-> [u \in 1 .. MaxBatch |->
                      [pc |-> "none", wake |-> 0]]]
    /\ requests = {}

\* The runs of the rate limiter create no job.
RateRuns == {[jobs |-> 0, tasks |-> 0, urls |-> 0, restarts |-> 0, faults |-> TRUE]}

Init == lim \in Runs /\ Start /\ StartRate /\ StartCrawl
InitCap == lim \in CapRuns /\ Start /\ StartRate /\ StartCrawl
InitRate == lim \in RateRuns /\ Start /\ StartRate /\ StartCrawl
InitBatch == lim \in BatchRuns /\ Start /\ StartRate /\ StartCrawl
InitLive == lim \in LiveRuns /\ Start /\ StartRate /\ StartCrawl

(***************************************************************************)
(* The manager's calls.  start_job, stop_job and resume_job are declared   *)
(* async but hold no await: each runs to its return in one step.           *)
(***************************************************************************)

\* _save_job_metadata(job): the job file is rewritten with job.to_dict()
SaveJobMetadata(d, j, job) == [d EXCEPT ![j] = job]

create_job(website_id) ==
    /\ Len(jobs) < lim.jobs
    /\ jobs' = Append(jobs, CrawlerJob(website_id))
    /\ disk' = Append(disk, CrawlerJob(website_id))
    /\ UNCHANGED <<crawl_vars, rate_vars, lim, site, active_jobs, content, tasks, spawned, seed,
                   pages, ret>>

\* start_job without its check of len(self.active_jobs)
StartAdmitted_NoCap(j) ==
    /\ j \in 1 .. Len(jobs)
    /\ jobs[j].status # "running"

\* start_job comparing len(self.active_jobs) with > instead of >=
StartAdmitted_CapPlusOne(j) ==
    /\ j \in 1 .. Len(jobs)
    /\ jobs[j].status # "running"
    /\ Cardinality(active_jobs) <= max_concurrent_jobs

\* start_job: none of the three early returns is taken
StartAdmitted(j) ==
    /\ j \in 1 .. Len(jobs)
    /\ jobs[j].status # "running"
    /\ Cardinality(active_jobs) < max_concurrent_jobs

\* start_job: the job as updated on admission
Started(job) == [job EXCEPT !.status = "running", !.start_time = Now(job)]

start_job(j) ==
    \/ /\ ~StartAdmitted(j)
       /\ ret' = <<"start_job", j, "False">>
       /\ UNCHANGED <<crawl_vars, rate_vars, lim, site, jobs, active_jobs, disk, content, tasks,
                      spawned, seed, pages>>
    \/ /\ StartAdmitted(j)
       /\ spawned < lim.tasks
       /\ jobs' = [jobs EXCEPT ![j] = Started(jobs[j])]
       /\ active_jobs' = active_jobs \cup {j}
       /\ disk' = SaveJobMetadata(disk, j, Started(jobs[j]))
       /\ tasks' = Spawn(NewTask(j, "_run_job"))
       /\ spawned' = spawned + 1
       /\ ret' = <<"start_job", j, "True">>
       /\ UNCHANGED <<crawl_vars, rate_vars, lim, site, content, seed, pages>>

\* stop_job: the job as updated before active_jobs.remove(job_id)
Stopped(job) == [job EXCEPT !.status = "stopped", !.end_time = Now(job)]

\* stop_job going on whatever the status of the job
StopAdmitted_AnyStatus(j) ==
    j \in 1 .. Len(jobs)

\* stop_job: neither of the two early returns is taken
StopAdmitted(j) ==
    /\ j \in 1 .. Len(jobs)
    /\ jobs[j].status = "running"

stop_job(j) ==
    \/ /\ ~StopAdmitted(j)
       /\ ret' = <<"stop_job", j, "False">>
       /\ UNCHANGED <<crawl_vars, rate_vars, lim, site, jobs, active_jobs, disk, content, tasks,
                      spawned, seed, pages>>
    \/ /\ StopAdmitted(j)
       /\ j \in active_jobs
       /\ jobs' = [jobs EXCEPT ![j] = Stopped(jobs[j])]
       /\ active_jobs' = active_jobs \ {j}
       /\ disk' = SaveJobMetadata(disk, j, Stopped(jobs[j]))
       /\ ret' = <<"stop_job", j, "True">>
       /\ UNCHANGED <<crawl_vars, rate_vars, lim, site, content, tasks, spawned, seed, pages>>
    \/ \* set.remove raises KeyError: the call ends before the save
       /\ StopAdmitted(j)
       /\ j \notin active_jobs
       /\ jobs' = [jobs EXCEPT ![j] = Stopped(jobs[j])]
       /\ ret' = <<"stop_job", j, "KeyError">>
       /\ UNCHANGED <<crawl_vars, rate_vars, lim, site, active_jobs, disk, content, tasks, spawned,
                      seed, pages>>

\* resume_job: none of the three early returns is taken
ResumeAdmitted(j) ==
    /\ j \in 1 .. Len(jobs)
    /\ jobs[j].status \in {"failed", "stopped"}
    /\ Cardinality(active_jobs) < max_concurrent_jobs

\* resume_job starting the counters over
Resumed_Reset(job) ==
    [job EXCEPT !.status = "running", !.processed_urls = 0,
                !.successful_urls = 0, !.failed_urls = 0, !.errors = <<>>]

\* resume_job: the job as updated on admission
Resumed(job) == [job EXCEPT !.status = "running"]

resume_job(j) ==
    \/ /\ ~ResumeAdmitted(j)
       /\ ret' = <<"resume_job", j, "False">>
       /\ UNCHANGED <<crawl_vars, rate_vars, lim, site, jobs, active_jobs, disk, content, tasks,
                      spawned, seed, pages>>
    \/ /\ ResumeAdmitted(j)
       /\ spawned < lim.tasks
       /\ jobs' = [jobs EXCEPT ![j] = Resumed(jobs[j])]
       /\ active_jobs' = active_jobs \cup {j}
       /\ disk' = SaveJobMetadata(disk, j, Resumed(jobs[j]))
       /\ tasks' = Spawn(NewTask(j, "_resume_job"))
       /\ spawned' = spawned + 1
       /\ ret' = <<"resume_job", j, "True">>
       /\ UNCHANGED <<crawl_vars, rate_vars, lim, site, content, seed, pages>>

\* The process ends and a new one builds CrawlerManager() and calls
\* load_jobs(): every job file becomes a CrawlerJob, active_jobs is empty,
\* the coroutines of the old process are gone, str hashes are re-salted.
load_jobs ==
    /\ seed < lim.restarts
    /\ seed' = seed + 1
    /\ jobs' = disk
    /\ active_jobs' = {}
    /\ tasks' = EmptyBag
    /\ ret' = NoCall
    /\ UNCHANGED <<crawl_vars, rate_vars, lim, site, disk, content, spawned, pages>>

(***************************************************************************)
(* The background pipeline: _run_job and _resume_job, cut at their awaits. *)
(*   created      the task is scheduled and has not run yet                *)
(*   robots       crawl(): GET /robots.txt is in flight                    *)
(*   sitemap      crawl(): GET of the sitemap is in flight                 *)
(*   extract      await extractor.extract_from_urls(batch)                 *)
(*   save_content await self._save_content(...), file not written yet      *)
(*   save_written await self._save_content(...), file written              *)
(*   done         the coroutine has returned                               *)
(* The site modelled names its sitemap in robots.txt, so that discovery is *)
(* two requests.  The result of each URL of a batch is drawn when the      *)
(* for-loop reads it: nothing observes it earlier.                         *)
(***************************************************************************)

\* content["url"] of the files under content/<website_id>/
StoredUrls(website_id) == {c.url : c \in {d \in content : d.website_id = website_id}}

\* _save_content: the file written for a URL, named f"{hash(url)}.json"
ContentFile(website_id, url) == [website_id |-> website_id, hash |-> seed, url |-> url]

\* _run_job 155 / _resume_job 369: the URLs the loop will process
UrlsToProcess(t) ==
    IF t.body = "_resume_job"
    THEN SelectSeq(site, LAMBDA u : u \notin t.processed)
    ELSE site

\* _run_job 157 / _resume_job 372-373
WithTotal(job, t, urls) ==
    [job EXCEPT !.total_urls = IF t.body = "_resume_job"
                               THEN job.processed_urls + Len(urls)
                               ELSE Len(urls)]

\* the error branch ending in "continue": processed_urls is not counted
RecordErrors_Uncounted(job, n) ==
    [job EXCEPT !.failed_urls = @ + n,
                !.errors = @ \o [e \in 1 .. n |-> "fetch"]]

\* the error branch treating a fetch failure as fatal to the job
RecordErrors_Fatal(job, n) ==
    [job EXCEPT !.failed_urls = @ + n,
                !.errors = @ \o [e \in 1 .. n |-> "fetch"],
                !.processed_urls = @ + n,
                !.status = IF n > 0 THEN "failed" ELSE @]

\* the "error" in result branch, for n results in a row
RecordErrors(job, n) ==
    [job EXCEPT !.failed_urls = @ + n,
                !.errors = @ \o [e \in 1 .. n |-> "fetch"],
                !.processed_urls = @ + n]

\* the else branch once _save_content has returned
RecordSuccess(job) ==
    [job EXCEPT !.successful_urls = @ + 1, !.processed_urls = @ + 1]

\* the return without the "Update job status" block
Exit_KeepRunning(job, t) == [job |-> job, task |-> DoneTask]

\* "Update job status" after the loops, and the return
Exit(job, t) ==
    [job |-> IF job.status = "running"
             THEN [job EXCEPT !.status = "completed", !.end_time = Now(job)]
             ELSE job,
     task |-> DoneTask]

\* an except clause that only records the message
Failed_MessageOnly(job) ==
    [job EXCEPT !.errors = Append(@, "exception")]

\* except Exception as e
Failed(job) ==
    [job EXCEPT !.status = "failed", !.end_time = Now(job),
                !.errors = Append(@, "exception")]

\* the head of "for i in range(0, len(urls), batch_size)" at index i
NextBatch(job, t, i) ==
    IF i >= Len(t.urls) \/ job.status # "running"
    THEN Exit(job, t)
    ELSE [job |-> job, task |-> [t EXCEPT !.pc = "extract", !.i = i, !.k = 0]]

\* len(content_results) of the batch that starts at t.i
BatchLen(t) == Min(batch_size, Len(t.urls) - t.i)

\* the inner loop leaving the batch at its first error result
InnerLoop_BreakOnError(job, t, n) ==
    IF job.status # "running"
    THEN NextBatch(job, t, t.i + batch_size)
    ELSE IF t.k + n < BatchLen(t) /\ n = 0
         THEN [job |-> job, task |-> [t EXCEPT !.pc = "save_content"]]
         ELSE NextBatch(RecordErrors(job, n), t, t.i + batch_size)

\* the inner loop running on without its status check
InnerLoop_NoCheck(job, t, n) ==
    IF t.k + n < BatchLen(t)
    THEN [job |-> RecordErrors(job, n),
          task |-> [t EXCEPT !.pc = "save_content", !.k = t.k + n]]
    ELSE NextBatch(RecordErrors(job, n), t, t.i + batch_size)

\* "for result in content_results" from result t.k on, when the next n
\* results are errors and the one after them, if any, is a document
InnerLoop(job, t, n) ==
    IF job.status # "running"
    THEN NextBatch(job, t, t.i + batch_size)
    ELSE IF t.k + n < BatchLen(t)
         THEN [job |-> RecordErrors(job, n),
               task |-> [t EXCEPT !.pc = "save_content", !.k = t.k + n]]
         ELSE NextBatch(RecordErrors(job, n), t, t.i + batch_size)

\* a pipeline step whose finally block leaves the id in active_jobs
Commit_KeepActive(t, r, save) ==
    /\ jobs' = [jobs EXCEPT ![t.job] = r.job]
    /\ tasks' = Replace(t, r.task)
    /\ active_jobs' = active_jobs
    /\ disk' = IF r.task.pc = "done" \/ save
               THEN SaveJobMetadata(disk, t.job, r.job) ELSE disk

\* One step of task t ending in r: the finally block runs when the coroutine
\* returns; save tells whether _save_job_metadata ran in the step.
Commit(t, r, save) ==
    /\ jobs' = [jobs EXCEPT ![t.job] = r.job]
    /\ tasks' = Replace(t, r.task)
    /\ active_jobs' = IF r.task.pc = "done" THEN active_jobs \ {t.job}
                      ELSE active_jobs
    /\ disk' = IF r.task.pc = "done" \/ save
               THEN SaveJobMetadata(disk, t.job, r.job) ELSE disk

\* the coroutine runs up to its first await, inside crawler.crawl()
pipeline_begin(t) ==
    /\ t.pc = "created"
    /\ tasks' = Replace(t,
           IF t.kind = "_resume_job" /\ jobs[t.job].total_urls > 0
           THEN [t EXCEPT !.pc = "robots",
                          !.processed = StoredUrls(jobs[t.job].website_id)]
           ELSE [t EXCEPT !.pc = "robots", !.body = "_run_job"])
    /\ UNCHANGED <<crawl_vars, rate_vars, lim, site, jobs, active_jobs, disk, content, spawned, seed,
                   pages, ret>>

\* discover_sitemap_url returns the Sitemap: URL; crawl() requests it
robots_fetched(t) ==
    /\ t.pc = "robots"
    /\ tasks' = Replace(t, [t EXCEPT !.pc = "sitemap"])
    /\ UNCHANGED <<crawl_vars, rate_vars, lim, site, jobs, active_jobs, disk, content, spawned, seed,
                   pages, ret>>

\* crawl() returns: total_urls is set and the first batch is issued
urls_discovered(t) ==
    /\ t.pc = "sitemap"
    /\ LET urls == UrlsToProcess(t)
       IN Commit(t, NextBatch(WithTotal(jobs[t.job], t, urls),
                              [t EXCEPT !.urls = urls], 0),
                 TRUE)
    /\ UNCHANGED <<crawl_vars, rate_vars, lim, site, content, spawned, seed, pages, ret>>

\* extract_from_urls returns the results of the batch
batch_extracted(t) ==
    /\ t.pc = "extract"
    /\ \E n \in 0 .. BatchLen(t) :
         /\ jobs[t.job].status = "running" \/ n = 0
         /\ Commit(t, InnerLoop(jobs[t.job], t, n), n > 0)
    /\ UNCHANGED <<crawl_vars, rate_vars, lim, site, content, spawned, seed, pages, ret>>

\* an exception of one extract_from_url leaves asyncio.gather and
\* extract_from_urls, and is caught by the except of the pipeline
batch_raised(t) ==
    /\ t.pc = "extract"
    /\ Commit(t, [job |-> Failed(jobs[t.job]), task |-> DoneTask], TRUE)
    /\ UNCHANGED <<crawl_vars, rate_vars, lim, site, content, spawned, seed, pages, ret>>

\* PageRepository.get_by_url: the id of the row of a URL, 0 for None
get_by_url(rows, url) ==
    IF \E p \in 1 .. Len(rows) : rows[p].url = url
    THEN CHOOSE p \in 1 .. Len(rows) : rows[p].url = url
    ELSE 0

\* _save_content creating a row without looking for the URL
Upsert_CreateOnly(rows, url, website_id) ==
    Append(rows, [url |-> url, website_id |-> website_id, last_crawled_at |-> 1])

\* _save_content 246-266: update the row of the URL, or create one; the
\* time written is kept as the ordinal of the write among those of the row
Upsert(rows, url, website_id) ==
    IF get_by_url(rows, url) # 0
    THEN [rows EXCEPT ![get_by_url(rows, url)].last_crawled_at = @ + 1]
    ELSE Append(rows, [url |-> url, website_id |-> website_id,
                       last_crawled_at |-> 1])

\* _save_content: the content file is written
content_written(t) ==
    /\ t.pc = "save_content"
    /\ content' = content \cup
           {ContentFile(jobs[t.job].website_id, t.urls[t.i + t.k + 1])}
    /\ tasks' = Replace(t, [t EXCEPT !.pc = "save_written"])
    /\ UNCHANGED <<crawl_vars, rate_vars, lim, site, jobs, active_jobs, disk, spawned, seed, pages, ret>>

\* _save_content returns, having written the file or having logged the
\* error of the write; the result is counted and the loop goes on
content_saved(t) ==
    /\ t.pc \in {"save_content", "save_written"}
    /\ lim.faults \/ t.pc = "save_written"
    /\ \E n \in 0 .. (BatchLen(t) - t.k - 1) :
         /\ jobs[t.job].status = "running" \/ n = 0
         /\ Commit(t, InnerLoop(RecordSuccess(jobs[t.job]),
                                [t EXCEPT !.k = t.k + 1], n),
                   TRUE)
    /\ pages' \in IF t.pc = "save_written"
                  THEN {Upsert(pages, t.urls[t.i + t.k + 1],
                               jobs[t.job].website_id)}
                       \cup IF lim.faults THEN {pages} ELSE {}
                  ELSE {pages}
    /\ UNCHANGED <<crawl_vars, rate_vars, lim, site, content, spawned, seed, ret>>

Next ==
    \/ \E w \in Websites : create_job(w)
    \/ \E j \in 1 .. lim.jobs : start_job(j)
    \/ \E j \in 1 .. lim.jobs : stop_job(j)
    \/ \E j \in 1 .. lim.jobs : resume_job(j)
    \/ load_jobs
    \/ \E t \in LiveTasks : pipeline_begin(t)
    \/ \E t \in LiveTasks : robots_fetched(t)
    \/ \E t \in LiveTasks : urls_discovered(t)
    \/ \E t \in LiveTasks : batch_extracted(t)
    \/ \E t \in LiveTasks : batch_raised(t)
    \/ \E t \in LiveTasks : content_written(t)
    \/ \E t \in LiveTasks : content_saved(t)

Spec == Init /\ [][Next]_vars
SpecCap == InitCap /\ [][Next]_vars
SpecBatch == InitBatch /\ [][Next]_vars

\* One step of some pipeline coroutine: the event loop resumes a coroutine
\* whose awaited network or storage call has returned.
PipelineStep ==
    \E t \in LiveTasks :
        \/ pipeline_begin(t) \/ robots_fetched(t) \/ urls_discovered(t)
        \/ batch_extracted(t) \/ batch_raised(t)
        \/ content_written(t) \/ content_saved(t)

\* A process that is not restarted.
NextLive ==
    \/ \E w \in Websites : create_job(w)
    \/ \E j \in 1 .. lim.jobs : start_job(j)
    \/ \E j \in 1 .. lim.jobs : stop_job(j)
    \/ \E j \in 1 .. lim.jobs : resume_job(j)
    \/ PipelineStep

\* Every awaited call returns and the event loop keeps resuming coroutines.
SpecLive == InitLive /\ [][NextLive]_vars /\ WF_vars(PipelineStep)

(***************************************************************************)
(* The rate limiter of the content extractor: fetch_url of                 *)
(* crawler/extractor/html_extractor.py, cut at its awaits, for the         *)
(* extractors of pipelines that run at the same time and crawl one domain. *)
(* Each pipeline builds its own EnhancedHTMLContentExtractor (_run_job     *)
(* 151, _resume_job 349), whose last_request_time is a dict of that        *)
(* instance.                                                               *)
(*   none   the URL has not been handed to extract_from_urls               *)
(*   start  extract_from_url is scheduled by asyncio.gather                *)
(*   sleep  await asyncio.sleep(delay - time_since_last_request)           *)
(*   get    session.get is in flight                                       *)
(*   done   fetch_url has returned                                         *)
(***************************************************************************)

\* the delay argument of fetch_url, in ticks
Delay == default_crawl_delay * TicksPerSecond

\* "Make the request": last_request_time[domain] = time.time(), session.get
MakeRequest(e, u) ==
    /\ last_request_time' = [last_request_time EXCEPT ![e] = <<now>>]
    /\ requests' = requests \cup {[by |-> e, url |-> u, at |-> now]}
    /\ fetches' = [fetches EXCEPT ![e][u].pc = "get"]

\* extract_from_urls(batch): asyncio.gather schedules one extract_from_url
\* per URL of the batch
extract_from_urls(e) ==
    /\ \A u \in 1 .. MaxBatch : fetches[e][u].pc = "none"
    /\ fetches' = [fetches EXCEPT ![e] = [u \in 1 .. MaxBatch |->
                       [pc |-> "start", wake |-> 0]]]
    /\ UNCHANGED <<crawl_vars, job_vars, now, last_request_time, requests>>

\* fetch_url from its entry to its first await: the sleep, or the request
fetch_url(e, u) ==
    /\ fetches[e][u].pc = "start"
    /\ IF /\ last_request_time[e] # <<>>
          /\ now - last_request_time[e][1] < Delay
       THEN /\ fetches' = [fetches EXCEPT ![e][u] =
                   [pc |-> "sleep",
                    wake |-> now + (Delay - (now - last_request_time[e][1]))]]
            /\ UNCHANGED <<last_request_time, requests>>
       ELSE MakeRequest(e, u)
    /\ UNCHANGED <<crawl_vars, job_vars, now>>

\* asyncio.sleep returns, at its due time or later, and the request is made
sleep_returned(e, u) ==
    /\ fetches[e][u].pc = "sleep"
    /\ now >= fetches[e][u].wake
    /\ MakeRequest(e, u)
    /\ UNCHANGED <<crawl_vars, job_vars, now>>

\* the response arrives, or session.get raises: fetch_url returns
fetch_returned(e, u) ==
    /\ fetches[e][u].pc = "get"
    /\ fetches' = [fetches EXCEPT ![e][u].pc = "done"]
    /\ UNCHANGED <<crawl_vars, job_vars, now, last_request_time, requests>>

\* time passes
tick ==
    /\ now < MaxTime
    /\ now' = now + 1
    /\ UNCHANGED <<crawl_vars, job_vars, last_request_time, fetches, requests>>

NextRate ==
    \/ \E e \in Extractors : extract_from_urls(e)
    \/ \E e \in Extractors : \E u \in 1 .. MaxBatch : fetch_url(e, u)
    \/ \E e \in Extractors : \E u \in 1 .. MaxBatch : sleep_returned(e, u)
    \/ \E e \in Extractors : \E u \in 1 .. MaxBatch : fetch_returned(e, u)
    \/ tick

SpecRate == InitRate /\ [][NextRate]_vars

(***************************************************************************)
(* robots.txt: RobotsParser of crawler/robots/robots_parser.py.            *)
(***************************************************************************)

\* str.lower() of the user-agent values that occur
Lower(v) ==
    IF v = "RAGCrawlerBot/1.0" THEN "ragcrawlerbot/1.0"
    ELSE IF v = "RAGCrawlerBot" THEN "ragcrawlerbot"
    ELSE v

\* float(value) of the Crawl-delay values that occur: <<>> for ValueError
Float(v) == IF v = "2" THEN <<2>> ELSE <<>>

\* path.startswith(rule)
startswith(path, rule) ==
    /\ Len(rule) <= Len(path)
    /\ SubSeq(path, 1, Len(rule)) = rule

\* d[key] = value of a dict kept as a function
SetItem(d, key, value) ==
    [k \in DOMAIN d \cup {key} |-> IF k = key THEN value ELSE d[k]]

EmptyDict == [k \in {} |-> <<>>]

\* The body of the for-loop of parse_robots_txt for one line.  The dict
\* rules is kept as two: the lists of the agents, and their
\* "<agent>_crawl_delay" entries.  current_agent is <<>> for None.
ParseLine(st, line) ==
    LET truthy == st.current_agent # <<>> /\ st.current_agent # <<"">>
    IN  IF line.directive = "user-agent"
        THEN [st EXCEPT !.current_agent = <<Lower(line.value)>>,
                        !.rules = IF Lower(line.value) \in DOMAIN st.rules
                                  THEN st.rules
                                  ELSE SetItem(st.rules, Lower(line.value), <<>>)]
        ELSE IF line.directive = "disallow" /\ truthy
        THEN IF line.value # <<>>
             THEN [st EXCEPT !.rules[st.current_agent[1]] = Append(@, line.value)]
             ELSE st
        ELSE IF line.directive = "crawl-delay" /\ truthy
        THEN IF Float(line.value) # <<>>
             THEN [st EXCEPT !.crawl_delay = SetItem(st.crawl_delay,
                                 st.current_agent[1], Float(line.value)[1])]
             ELSE st
        ELSE st

RECURSIVE ParseLines(_, _, _)
ParseLines(st, lines, i) ==
    IF i > Len(lines) THEN st
    ELSE ParseLines(ParseLine(st, lines[i]), lines, i + 1)

\* parse_robots_txt(robots_content); <<>> is the content of a robots.txt
\* that is empty or could not be fetched
parse_robots_txt(robots_content) ==
    LET wildcard == [rules |-> SetItem(EmptyDict, "*", <<>>),
                     crawl_delay |-> EmptyDict, current_agent |-> <<>>]
        st == ParseLines([rules |-> EmptyDict, crawl_delay |-> EmptyDict,
                          current_agent |-> <<>>], robots_content, 1)
    IN  IF robots_content = <<>> THEN wildcard
        ELSE IF DOMAIN st.rules = {} /\ DOMAIN st.crawl_delay = {}
        THEN [st EXCEPT !.rules = SetItem(EmptyDict, "*", <<>>)]
        ELSE st

get_crawl_delay(rules) ==
    IF Lower(user_agent) \in DOMAIN rules.crawl_delay
    THEN rules.crawl_delay[Lower(user_agent)]
    ELSE IF "*" \in DOMAIN rules.crawl_delay
    THEN rules.crawl_delay["*"]
    ELSE default_crawl_delay

\* the path checked for a URL: parsed_url.path or "/"
PathOf(url) == IF url = <<>> THEN Root ELSE url

\* is_allowed looking for the wildcard group before the group of its agent
is_allowed_WildcardFirst(robots_content, url) ==
    LET rules == parse_robots_txt(robots_content)
        user_agent_rules ==
            IF "*" \in DOMAIN rules.rules
            THEN rules.rules["*"]
            ELSE IF Lower(user_agent) \in DOMAIN rules.rules
            THEN rules.rules[Lower(user_agent)]
            ELSE <<>>
    IN  [allowed |-> ~ \E r \in 1 .. Len(user_agent_rules) :
                         startswith(PathOf(url), user_agent_rules[r]),
         crawl_delay |-> get_crawl_delay(rules)]

\* is_allowed(url) on a website whose robots.txt is robots_content
is_allowed(robots_content, url) ==
    LET rules == parse_robots_txt(robots_content)
        user_agent_rules ==
            IF Lower(user_agent) \in DOMAIN rules.rules
            THEN rules.rules[Lower(user_agent)]
            ELSE IF "*" \in DOMAIN rules.rules
            THEN rules.rules["*"]
            ELSE <<>>
    IN  [allowed |-> ~ \E r \in 1 .. Len(user_agent_rules) :
                         startswith(PathOf(url), user_agent_rules[r]),
         crawl_delay |-> get_crawl_delay(rules)]

\* a call of is_allowed returns
is_allowed_returns(url) ==
    /\ verdict' = [url |-> url,
                   allowed |-> is_allowed(web.robots_txt, url).allowed,
                   crawl_delay |-> is_allowed(web.robots_txt, url).crawl_delay]
    /\ UNCHANGED <<job_vars, rate_vars, web, crawler>>

\* the robots.txt files checked: every text of up to MaxLines lines
RobotsTexts == UNION {[1 .. n -> RobotsLines] : n \in 0 .. MaxLines}

InitRobots ==
    /\ lim \in RateRuns /\ Start /\ StartRate
    /\ web \in {[NoWeb EXCEPT !.robots_txt = r] : r \in RobotsTexts}
    /\ crawler = IdleCrawler(MaxPagesArg)
    /\ verdict = NoVerdict

NextRobots == \E url \in Urls \cup {PrivateDir} : is_allowed_returns(url)

SpecRobots == InitRobots /\ [][NextRobots]_vars

(***************************************************************************)
(* URL discovery: EnhancedSitemapCrawler.crawl() of                        *)
(* crawler/crawler/sitemap_crawler.py, one call on one website.            *)
(*   idle        crawl() has not been called                               *)
(*   found       discover_sitemap_url has returned                         *)
(*   link_crawl  at the head of the while-loop of crawl_without_sitemap    *)
(*   done        crawl() has returned crawler.results                      *)
(* fetch_url returns None for every failure, so a document or page either  *)
(* has content or has not.  The call has no state shared with another      *)
(* coroutine: the awaits inside one loop iteration are taken in one step.  *)
(***************************************************************************)

\* discover_sitemap_url without the probe of the conventional locations
discover_sitemap_url_RobotsOnly(w) ==
    IF SelectSeq(w.robots_txt, LAMBDA line : line.directive = "sitemap") # <<>>
    THEN SelectSeq(w.robots_txt, LAMBDA line : line.directive = "sitemap")[1].value
    ELSE 0

\* common_locations: the conventional paths; those beyond the documents of
\* the model answer 404
common_locations == <<1, 2>>

\* re.findall(r'Sitemap:\s*(.*)', robots_content, re.IGNORECASE)
sitemap_matches(robots_content) ==
    SelectSeq(robots_content, LAMBDA line : line.directive = "sitemap")

\* discover_sitemap_url: the URL named first in robots.txt, which is not
\* requested here, else the first conventional location that has content,
\* else None (0)
discover_sitemap_url(w) ==
    IF sitemap_matches(w.robots_txt) # <<>>
    THEN sitemap_matches(w.robots_txt)[1].value
    ELSE LET found == {i \in 1 .. Len(common_locations) :
                          w.sitemaps[common_locations[i]].ok}
         IN  IF found = {} THEN 0
             ELSE common_locations[CHOOSE i \in found : \A h \in found : i <= h]

RECURSIVE parse_sitemap_NoNesting(_, _)
\* parse_sitemap reading the sub-sitemaps of an index as URL sets only
parse_sitemap_NoNesting(docs, s) ==
    LET sub(loc) == IF docs[loc].ok /\ docs[loc].kind = "urlset"
                    THEN docs[loc].locs ELSE <<>>
        RECURSIVE all_urls(_)
        all_urls(i) == IF i > Len(docs[s].locs) THEN <<>>
                       ELSE sub(docs[s].locs[i]) \o all_urls(i + 1)
    IN  IF docs[s].kind = "index" THEN all_urls(1) ELSE docs[s].locs

RECURSIVE parse_sitemap(_, _)
\* parse_sitemap(sitemap_content) for the content of document s: an index
\* is replaced by the entries of its sub-sitemaps that can be fetched, in
\* the order listed
parse_sitemap(docs, s) ==
    LET sub(loc) == IF docs[loc].ok THEN parse_sitemap(docs, loc) ELSE <<>>
        RECURSIVE all_urls(_)
        all_urls(i) == IF i > Len(docs[s].locs) THEN <<>>
                       ELSE sub(docs[s].locs[i]) \o all_urls(i + 1)
    IN  IF docs[s].kind = "index" THEN all_urls(1) ELSE docs[s].locs

\* crawl_without_sitemap up to its while-loop
EnterLinkCrawl ==
    crawler' = [crawler EXCEPT !.pc = "link_crawl", !.via = "links",
                               !.to_crawl = {base_url}, !.crawled = {},
                               !.results = <<>>]

\* crawl(): await self.discover_sitemap_url(session) returns
sitemap_discovered ==
    /\ crawler.pc = "idle"
    /\ crawler' = [crawler EXCEPT !.pc = "found",
                                  !.sitemap_url = discover_sitemap_url(web)]
    /\ UNCHANGED <<job_vars, rate_vars, web, verdict>>

\* crawl(): no sitemap URL, the fallback starts
no_sitemap_found ==
    /\ crawler.pc = "found"
    /\ crawler.sitemap_url = 0
    /\ EnterLinkCrawl
    /\ UNCHANGED <<job_vars, rate_vars, web, verdict>>

\* crawl(): the sitemap URL has been requested; with content the parsed
\* entries are returned, without content the fallback starts
sitemap_fetched ==
    /\ crawler.pc = "found"
    /\ crawler.sitemap_url # 0
    /\ IF web.sitemaps[crawler.sitemap_url].ok
       THEN crawler' = [crawler EXCEPT !.pc = "done", !.via = "sitemap",
                           !.results = parse_sitemap(web.sitemaps,
                                                     crawler.sitemap_url)]
       ELSE EnterLinkCrawl
    /\ UNCHANGED <<job_vars, rate_vars, web, verdict>>

\* One iteration of the while-loop: to_crawl.pop() hands out an arbitrary
\* element of the set.
crawl_page(current_url) ==
    /\ crawler.pc = "link_crawl"
    /\ crawler.to_crawl # {}
    /\ Cardinality(crawler.crawled) < crawler.max_pages
    /\ current_url \in crawler.to_crawl
    /\ LET popped == crawler.to_crawl \ {current_url}
           answer == is_allowed(web.robots_txt, current_url)
       IN  IF current_url \in crawler.crawled
           THEN /\ crawler' = [crawler EXCEPT !.to_crawl = popped]
                /\ UNCHANGED verdict
           ELSE /\ verdict' = [url |-> current_url,
                               allowed |-> answer.allowed,
                               crawl_delay |-> answer.crawl_delay]
                /\ IF ~answer.allowed
                   THEN crawler' = [crawler EXCEPT !.to_crawl = popped]
                   ELSE IF current_url \in web.fetchable
                   THEN crawler' =
                          [crawler EXCEPT
                             !.fetched = Append(@, current_url),
                             !.crawled = @ \cup {current_url},
                             !.results = Append(@, current_url),
                             !.to_crawl = popped \cup
                                 (web.links[current_url]
                                    \ (crawler.crawled \cup {current_url}))]
                   ELSE crawler' = [crawler EXCEPT
                                      !.fetched = Append(@, current_url),
                                      !.to_crawl = popped]
    /\ UNCHANGED <<job_vars, rate_vars, web>>

\* the while-condition is false: crawl_without_sitemap and crawl() return
link_crawl_returns ==
    /\ crawler.pc = "link_crawl"
    /\ crawler.to_crawl = {} \/ Cardinality(crawler.crawled) >= crawler.max_pages
    /\ crawler' = [crawler EXCEPT !.pc = "done"]
    /\ UNCHANGED <<job_vars, rate_vars, web, verdict>>

\* the sequence of the elements of a set of numbers, ascending
RECURSIVE Ascending(_)
Ascending(S) ==
    IF S = {} THEN <<>>
    ELSE LET least == CHOOSE x \in S : \A y \in S : x <= y
         IN  <<least>> \o Ascending(S \ {least})

\* The documents sitemap URL s may hold: nothing, a URL set of up to
\* MaxLocs entries, or an index of later documents (no index lists itself).
SitemapDocs(s) ==
    {Missing}
    \cup {[ok |-> TRUE, kind |-> "urlset", locs |-> l] :
             l \in UNION {[1 .. n -> {Public, PrivatePage}] : n \in 0 .. MaxLocs}}
    \cup {[ok |-> TRUE, kind |-> "index", locs |-> Ascending(S)] :
             S \in SUBSET (s + 1 .. MaxSitemaps) \ {{}}}

\* the robots.txt files of the websites crawled
CrawlRobotsTexts ==
    {<<>>,
     <<Line("user-agent", "*"), Line("disallow", PrivateDir)>>,
     <<Line("user-agent", "*"), Line("disallow", Root)>>,
     <<Line("user-agent", "*"), Line("disallow", PrivateDir), Line("sitemap", 1)>>}
    \cup {<<Line("sitemap", s)>> : s \in Sitemaps}

\* Websites with sitemaps, whose pages are the base URL alone
SitemapWebs ==
    {[robots_txt |-> r, sitemaps |-> d, links |-> [u \in Urls |-> {}],
      fetchable |-> f] :
        r \in CrawlRobotsTexts,
        d \in {g \in [Sitemaps -> UNION {SitemapDocs(s) : s \in Sitemaps}] :
                  \A s \in Sitemaps : g[s] \in SitemapDocs(s)},
        f \in {{}, {base_url}}}

\* Websites without sitemap: pages of up to MaxLinks links each, all of
\* which answer but at most one
LinkWebs ==
    {[robots_txt |-> r, sitemaps |-> [s \in Sitemaps |-> Missing],
      links |-> l, fetchable |-> f] :
        r \in {<<>>, <<Line("user-agent", "*"), Line("disallow", PrivateDir)>>},
        l \in {g \in [Urls -> SUBSET Urls] :
                  \A u \in Urls : u \notin g[u] /\ Cardinality(g[u]) <= MaxLinks},
        f \in {Urls} \cup {Urls \ {u} : u \in Urls}}

InitCrawl ==
    /\ lim \in RateRuns /\ Start /\ StartRate
    /\ web \in SitemapWebs \cup LinkWebs
    /\ crawler \in {IdleCrawler(m) : m \in {0, 1, MaxPagesArg}}
    /\ verdict = NoVerdict

NextCrawl ==
    \/ sitemap_discovered
    \/ no_sitemap_found
    \/ sitemap_fetched
    \/ \E current_url \in Urls : crawl_page(current_url)
    \/ link_crawl_returns

SpecCrawl == InitCrawl /\ [][NextCrawl]_vars

(***************************************************************************)
(* Properties.                                                             *)
(***************************************************************************)

JobsCreated == 1 .. Len(jobs)

\* the number of live pipeline coroutines of job j, in bag b, at a pc of pcs
TaskCount(b, j, pcs) ==
    LET S == {t \in BagToSet(b) : t.job = j /\ t.pc \in pcs}
    IN BagCardinality([t \in S |-> CopiesIn(t, b)])

\* the suspension points of a pipeline that has begun to run
Awaits == {"robots", "sitemap", "extract", "save_content", "save_written"}
AllPcs == {"created"} \cup Awaits

\* C1: the active-job set never holds more than max_concurrent_jobs ids,
\* whatever the interleaving of start_job, resume_job, stop_job and
\* pipeline steps.
ActiveWithinCap == Cardinality(active_jobs) <= max_concurrent_jobs

\* C1 witness: the cap is full, every slot was given by an admission, and a
\* further job waits that start_job refuses.
CapFullAndJobWaiting ==
    /\ Cardinality(active_jobs) = max_concurrent_jobs
    /\ \E j \in JobsCreated : jobs[j].status = "pending" /\ ~StartAdmitted(j)

\* C2: a job is mutated by at most one pipeline at a time: no state holds two
\* pipeline coroutines of one job, both suspended in an await, while the
\* job's status is running (both would go on to update the job).
SingleWriter ==
    \A j \in JobsCreated :
        jobs[j].status = "running" => TaskCount(tasks, j, Awaits) <= 1

\* the transitions of the job state machine of the specification
LegalTransitions ==
    {<<"pending", "running">>, <<"running", "completed">>,
     <<"running", "failed">>, <<"running", "stopped">>,
     <<"failed", "running">>, <<"stopped", "running">>}

\* C3: a job's status changes only along pending -> running, running ->
\* completed | failed | stopped, failed | stopped -> running.
OnlyLegalTransitions ==
    [][\A j \in JobsCreated :
          \/ jobs'[j].status = jobs[j].status
          \/ <<jobs[j].status, jobs'[j].status>> \in LegalTransitions]_vars

\* C4: in every state between two steps (each suspension point of a pipeline,
\* the return of each manager call), processed_urls = successful_urls +
\* failed_urls for every job.
CountersAddUp ==
    \A j \in JobsCreated :
        jobs[j].processed_urls = jobs[j].successful_urls + jobs[j].failed_urls

\* C4 witness: a job with documents and failures counted while one of its
\* pipelines is suspended in _save_content.
MixedResultsMidSave ==
    \E j \in JobsCreated :
        /\ jobs[j].successful_urls > 0 /\ jobs[j].failed_urls > 0
        /\ TaskCount(tasks, j, {"save_content", "save_written"}) > 0

\* C5: total_urls >= processed_urls for every job in every state (the two
\* are 0 until discovery has run once).
TotalCoversProcessed ==
    \A j \in JobsCreated : jobs[j].total_urls >= jobs[j].processed_urls

\* C8: in no step does a job's processed_urls, successful_urls or
\* failed_urls decrease or its errors list lose or change an entry.
CountersNeverRollBack ==
    [][\A j \in JobsCreated :
          /\ jobs'[j].processed_urls >= jobs[j].processed_urls
          /\ jobs'[j].successful_urls >= jobs[j].successful_urls
          /\ jobs'[j].failed_urls >= jobs[j].failed_urls
          /\ Len(jobs'[j].errors) >= Len(jobs[j].errors)
          /\ SubSeq(jobs'[j].errors, 1, Len(jobs[j].errors)) = jobs[j].errors]_vars

\* C8 witness: a pipeline launched by resume_job has counted a result of its
\* own on top of the results the job had before.
ResumeAddedToCounters ==
    \E t \in LiveTasks :
        /\ t.kind = "_resume_job" /\ t.body = "_resume_job"
        /\ t.i + t.k > 0
        /\ jobs[t.job].processed_urls > t.i + t.k
        /\ TaskCount(tasks, t.job, AllPcs) = 1

\* C9: a step that records fetch failures finds the job running, counts each
\* failure in failed_urls and processed_urls, appends one "Failed to extract
\* content" string per failure, and leaves the job running with its pipeline
\* at the next URL, or completed with its pipeline returned when no URL is
\* left; it never leaves the job failed.
FetchFailureIsPerUrl ==
    [][\A j \in JobsCreated :
          LET n == jobs'[j].failed_urls - jobs[j].failed_urls
              m == jobs'[j].successful_urls - jobs[j].successful_urls
          IN n > 0 =>
             /\ jobs[j].status = "running"
             /\ jobs'[j].processed_urls = jobs[j].processed_urls + n + m
             /\ jobs'[j].errors = jobs[j].errors \o [e \in 1 .. n |-> "fetch"]
             /\ \/ /\ jobs'[j].status = "running"
                   /\ TaskCount(tasks', j, AllPcs) = TaskCount(tasks, j, AllPcs)
                   /\ TaskCount(tasks', j, {"extract", "save_content"}) > 0
                \/ /\ jobs'[j].status = "completed"
                   /\ TaskCount(tasks', j, AllPcs) = TaskCount(tasks, j, AllPcs) - 1]_vars

\* C9 witness: every URL of a site of two URLs failed to fetch and the job is
\* completed.
AllFailedYetCompleted ==
    \E j \in JobsCreated :
        /\ jobs[j].status = "completed"
        /\ jobs[j].total_urls = 2 /\ jobs[j].failed_urls = 2
        /\ jobs[j].successful_urls = 0
        /\ jobs[j].errors = <<"fetch", "fetch">>

\* C10: an exception raised while one URL's content is extracted does not
\* make the job failed: no step of a pipeline awaiting extract_from_urls
\* turns the status of its job to failed.
ExtractionErrorIsPerUrl ==
    [][\A j \in JobsCreated :
          TaskCount(tasks, j, {"extract"}) > 0 /\ jobs[j].status # "failed"
              => jobs'[j].status # "failed"]_vars

\* the "Failed to extract content" entries of an errors list
FetchErrors(errors) ==
    SelectSeq(errors, LAMBDA e : e = "fetch")

\* the effect of a step on a job whose status is stopped: no fetch failure is
\* recorded, no batch is handed to extract_from_urls, no _save_content is
\* begun, and a document is counted only by a pipeline that was suspended in
\* _save_content and returns in the same step
HaltsAtCheckpoint(j) ==
    LET m == jobs'[j].successful_urls - jobs[j].successful_urls
    IN /\ jobs'[j].failed_urls = jobs[j].failed_urls
       /\ FetchErrors(jobs'[j].errors) = FetchErrors(jobs[j].errors)
       /\ jobs'[j].processed_urls = jobs[j].processed_urls + m
       /\ m \in {0, 1}
       /\ m = 1 => /\ TaskCount(tasks, j, {"save_content", "save_written"}) > 0
                   /\ TaskCount(tasks', j, AllPcs) = TaskCount(tasks, j, AllPcs) - 1
       /\ TaskCount(tasks', j, {"extract"}) <= TaskCount(tasks, j, {"extract"})
       /\ TaskCount(tasks', j, {"save_content"})
              <= TaskCount(tasks, j, {"save_content"})

\* a step issues no discovery request (robots.txt, sitemap or page fetch of
\* crawl()) on behalf of job j
NoDiscoveryRequest(j) ==
    /\ TaskCount(tasks', j, {"robots"}) <= TaskCount(tasks, j, {"robots"})
    /\ TaskCount(tasks', j, {"sitemap"}) <= TaskCount(tasks, j, {"sitemap"})

\* C6 as stated: while a job is stopped its pipeline issues no new request,
\* in URL discovery or inside a batch, and records no URL result beyond the
\* one being persisted.
StopHaltsRequests ==
    [][\A j \in JobsCreated :
          jobs[j].status = "stopped" =>
              HaltsAtCheckpoint(j) /\ NoDiscoveryRequest(j)]_vars

\* C6 amended: while a job is stopped its pipeline starts no extraction
\* batch, records no fetch failure, and counts at most the one document
\* whose _save_content was in progress, returning in that same step;
\* discovery is not covered, crawl() runs to its end after a stop.
StopHaltsAtCheckpoint ==
    [][\A j \in JobsCreated :
          jobs[j].status = "stopped" => HaltsAtCheckpoint(j)]_vars

\* C6 witness: a job stopped while its pipeline was persisting the first of
\* two documents: that document is counted, the second is not, and the
\* pipeline has returned.
StoppedAfterOneDocument ==
    \E j \in JobsCreated :
        /\ jobs[j].status = "stopped" /\ j \notin active_jobs
        /\ TaskCount(tasks, j, AllPcs) = 0
        /\ jobs[j].total_urls = 2 /\ jobs[j].processed_urls = 1
        /\ jobs[j].successful_urls = 1
        /\ disk[j] = jobs[j]

\* the URLs of the batch a pipeline is about to hand to extract_from_urls
BatchUrls(t) ==
    {t.urls[x] : x \in (t.i + 1) .. (t.i + BatchLen(t))}

\* C7: a pipeline launched by resume_job hands to extract_from_urls only URLs
\* for which the content store of the website holds no record.
ResumeSkipsStored ==
    [][\A t \in BagToSet(tasks') :
          /\ t.kind = "_resume_job" /\ t.pc = "extract"
          /\ CopiesIn(t, tasks') > CopiesIn(t, tasks)
          => BatchUrls(t) \cap StoredUrls(jobs[t.job].website_id) = {}]_vars

\* C11: a step in which an exception escapes a pipeline of a job (str(e) is
\* appended to errors) leaves the job failed with end_time set to the time
\* of the step, its id out of the active set, and total_urls and the three
\* counters as they were.
ExceptionFailsJob ==
    [][\A j \in JobsCreated :
          /\ Len(jobs'[j].errors) > Len(jobs[j].errors)
          /\ jobs'[j].errors[Len(jobs'[j].errors)] = "exception"
          => /\ jobs'[j].errors = Append(jobs[j].errors, "exception")
             /\ jobs'[j].status = "failed"
             /\ jobs'[j].end_time > jobs[j].end_time
             /\ jobs'[j].end_time > jobs[j].start_time
             /\ j \notin active_jobs'
             /\ jobs'[j].total_urls = jobs[j].total_urls
             /\ jobs'[j].processed_urls = jobs[j].processed_urls
             /\ jobs'[j].successful_urls = jobs[j].successful_urls
             /\ jobs'[j].failed_urls = jobs[j].failed_urls
             /\ TaskCount(tasks', j, AllPcs) = TaskCount(tasks, j, AllPcs) - 1]_vars

\* C11 witness: a job stopped after its first document and resumed, whose
\* batch then raised: it is failed, out of the active set, and keeps the
\* document counted before the exception.
FailedWithProgressKept ==
    \E j \in JobsCreated :
        /\ jobs[j].status = "failed" /\ j \notin active_jobs
        /\ jobs[j].end_time > jobs[j].start_time
        /\ Len(jobs[j].errors) > 0
        /\ jobs[j].errors[Len(jobs[j].errors)] = "exception"
        /\ jobs[j].successful_urls = 1 /\ jobs[j].processed_urls = 1
        /\ jobs[j].total_urls = 2
        /\ TaskCount(tasks, j, AllPcs) = 0

\* a step in which the _save_content awaited by t returns without having
\* written its file (the write raised)
SaveReturnedUnwritten(t) ==
    /\ t.pc = "save_content"
    /\ seed' = seed
    /\ CopiesIn(t, tasks') < CopiesIn(t, tasks)
    /\ TaskCount(tasks', t.job, {"save_written"})
           <= TaskCount(tasks, t.job, {"save_written"})

\* C12: a storage write failure while a URL's document is persisted makes
\* the job failed, and the URL is not counted in successful_urls.
StorageFailureIsFatal ==
    [][\A t \in LiveTasks :
          SaveReturnedUnwritten(t)
          => /\ jobs'[t.job].status = "failed"
             /\ jobs'[t.job].successful_urls = jobs[t.job].successful_urls]_vars

\* a step is a start_job, stop_job or resume_job call on job j
ManagerCall(j) == start_job(j) \/ stop_job(j) \/ resume_job(j)

\* C13: start_job, stop_job and resume_job never raise and never leave a job
\* partly updated: a call returns False with the job, its file and the
\* active set unchanged, or True with the job updated and saved.
CallsAreAllOrNothing ==
    [][\A j \in JobsCreated :
          ManagerCall(j)
          => \/ /\ ret'[3] = "False"
                /\ jobs' = jobs /\ active_jobs' = active_jobs /\ disk' = disk
             \/ /\ ret'[3] = "True"
                /\ jobs'[j] # jobs[j]
                /\ disk'[j] = jobs'[j]]_vars

\* C14: in every state between two steps (each suspension point of a
\* pipeline, the return of each manager call) the job file on disk equals
\* the serialized in-memory job.
DiskMatchesMemory ==
    \A j \in JobsCreated : disk[j] = jobs[j]

\* C15: start_job called while the active set holds max_concurrent_jobs ids
\* returns False and changes no job (status, times, counters), no job file
\* and not the active set, and launches no pipeline.
StartAtCapChangesNothing ==
    [][\A j \in 1 .. lim.jobs :
          start_job(j) /\ Cardinality(active_jobs) >= max_concurrent_jobs
          => /\ ret' = <<"start_job", j, "False">>
             /\ jobs' = jobs /\ disk' = disk
             /\ active_jobs' = active_jobs
             /\ tasks' = tasks /\ spawned' = spawned]_vars

\* C15 witness: the latest call was start_job on job 1, refused; job 1 is
\* still pending, the jobs created after it fill the active set, and the
\* run could have launched one more pipeline.
PendingJobRefusedAtCap ==
    /\ ret = <<"start_job", 1, "False">>
    /\ Len(jobs) = max_concurrent_jobs + 1
    /\ jobs[1] = CrawlerJob(jobs[1].website_id)
    /\ active_jobs = 2 .. (max_concurrent_jobs + 1)
    /\ \A j \in active_jobs : jobs[j].status = "running"
    /\ spawned < lim.tasks

\* C16: stop_job on a job whose status is not running returns False and
\* changes no job (status, start_time, end_time), no job file and not the
\* active set.
StopRefusedChangesNothing ==
    [][\A j \in JobsCreated :
          stop_job(j) /\ jobs[j].status # "running"
          => /\ ret' = <<"stop_job", j, "False">>
             /\ jobs' = jobs /\ disk' = disk
             /\ active_jobs' = active_jobs
             /\ tasks' = tasks]_vars

\* C16 witness: the latest call was stop_job on a job that had completed,
\* and it was refused; the job keeps the end_time of its completion.
CompletedJobStopRefused ==
    \E j \in JobsCreated :
        /\ ret = <<"stop_job", j, "False">>
        /\ jobs[j].status = "completed"
        /\ jobs[j].start_time = 1 /\ jobs[j].end_time = 2
        /\ disk[j] = jobs[j]

\* C19: the content store of a website holds at most one document per URL,
\* after any sequence of crawls and resumes, restarts of the process
\* included.
OneDocumentPerUrl ==
    \A c, d \in content :
        c.website_id = d.website_id /\ c.url = d.url => c = d

\* C20: a step that persists a document leaves the pages table as it was
\* (the database part failed or was not reached), or updates the one row of
\* the URL, keeping its id and creating none, or creates a row for a URL
\* that had none; after the step no two rows hold the same URL.
PersistUpdatesOrCreates ==
    [][/\ \/ pages' = pages
          \/ \E p \in 1 .. Len(pages) :
                pages' = [pages EXCEPT ![p].last_crawled_at = @ + 1]
          \/ /\ pages' = Append(pages, pages'[Len(pages')])
             /\ get_by_url(pages, pages'[Len(pages')].url) = 0
       /\ \A p, q \in 1 .. Len(pages') :
             pages'[p].url = pages'[q].url => p = q]_vars

\* C20 witness: two jobs run at the same time on one site and each has
\* persisted its first URL: the table holds one row for it, written twice,
\* while both pipelines are persisting the second URL.
TwoJobsOneRowPerUrl ==
    /\ Len(jobs) = 2
    /\ jobs[1].successful_urls = 1 /\ jobs[2].successful_urls = 1
    /\ TaskCount(tasks, 1, {"save_content", "save_written"}) = 1
    /\ TaskCount(tasks, 2, {"save_content", "save_written"}) = 1
    /\ Len(pages) = 1
    /\ pages[1].last_crawled_at = 2

\* the times of two requests are at least the crawl delay apart
Spaced(r, q) ==
    r.at - q.at >= Delay \/ q.at - r.at >= Delay

\* C17: any two requests to the domain are at least the crawl delay apart,
\* whichever jobs' extractors issue them.
SpacedAcrossJobs ==
    \A r, q \in requests : r # q => Spaced(r, q)

\* C18: no two requests of one extractor to the domain are less than the
\* crawl delay apart, the requests of one batch included.
SpacedWithinJob ==
    \A r, q \in requests : r # q /\ r.by = q.by => Spaced(r, q)

\* C28: a job id is in the active set if and only if the status of the job
\* is running, in every state between two steps.
ActiveIffRunning ==
    \A j \in JobsCreated : j \in active_jobs <=> jobs[j].status = "running"

\* C28 as amended: an id in the active set always belongs to a running job,
\* and a running job is in the active set unless load_jobs of a new process
\* found it running, in which case it has no pipeline.
ActiveIffRunningUntilRestart ==
    \A j \in JobsCreated :
        /\ j \in active_jobs => jobs[j].status = "running"
        /\ jobs[j].status = "running" /\ j \notin active_jobs
               => seed > 0 /\ TaskCount(tasks, j, AllPcs) = 0

RunningWithAndWithoutEntry ==
    \E j, k \in JobsCreated :
        /\ jobs[j].status = "running" /\ j \notin active_jobs
        /\ jobs[k].status = "running" /\ k \in active_jobs
        /\ TaskCount(tasks, k, Awaits) = 1

\* C29: a completed job has processed every URL it discovered:
\* processed_urls = total_urls.
CompletedMeansAllProcessed ==
    \A j \in JobsCreated :
        jobs[j].status = "completed"
            => jobs[j].processed_urls = jobs[j].total_urls

\* C30: a pending job has neither time set; a running job has start_time set
\* and end_time unset; a completed, failed or stopped job has end_time set.
TimesFollowStatus ==
    \A j \in JobsCreated :
        /\ jobs[j].status = "pending"
               => jobs[j].start_time = 0 /\ jobs[j].end_time = 0
        /\ jobs[j].status = "running"
               => jobs[j].start_time # 0 /\ jobs[j].end_time = 0
        /\ jobs[j].status \in {"completed", "failed", "stopped"}
               => jobs[j].end_time # 0

\* C26: within one pipeline the URLs are taken in consecutive batches of at
\* most batch_size, one batch after another: a step that issues the next
\* batch counts every remaining result of the current one and checkpoints
\* the job, and within a batch the results are counted, and the documents
\* stored, in the order of the URLs.
BatchesInSequence ==
    [][\A t \in LiveTasks : \A u \in BagToSet(tasks') :
          (t.pc \in {"extract", "save_content", "save_written"} /\ u.job = t.job
           /\ u.pc # "created")
          => /\ u.urls = t.urls
             /\ u.i \in {t.i, t.i + batch_size}
             /\ BatchLen(t) <= batch_size
             /\ content' \subseteq content \cup
                    {ContentFile(jobs[t.job].website_id, t.urls[t.i + t.k + 1])}
             /\ u.i = t.i
                   => /\ u.k >= t.k
                      /\ jobs'[t.job].processed_urls
                            = jobs[t.job].processed_urls + (u.k - t.k)
             /\ u.i # t.i
                   => /\ u.pc = "extract" /\ u.k = 0
                      /\ jobs'[t.job].processed_urls
                            = jobs[t.job].processed_urls + (BatchLen(t) - t.k)
                      /\ jobs'[t.job].processed_urls = u.i
                      /\ disk'[t.job] = jobs'[t.job]]_vars

SecondBatchAfterFullFirst ==
    \E t \in LiveTasks :
        /\ t.pc = "extract" /\ t.i = batch_size
        /\ jobs[t.job].processed_urls = batch_size
        /\ jobs[t.job].successful_urls > 0
        /\ jobs[t.job].failed_urls > 0

\* job j has been admitted and has not come to an end
Admitted(j) ==
    IF j \in JobsCreated
    THEN jobs[j].status = "running" \/ j \in active_jobs
    ELSE FALSE

\* job j has come to an end and holds no slot
Finished(j) ==
    IF j \in JobsCreated
    THEN /\ jobs[j].status \in {"completed", "failed", "stopped"}
         /\ j \notin active_jobs
    ELSE FALSE

AgentAbove(lines, k) ==
    LET above == {i \in 1 .. k - 1 : lines[i].directive = "user-agent"}
    IN  IF above = {} THEN <<>>
        ELSE <<Lower(lines[CHOOSE i \in above : \A h \in above : h <= i].value)>>

\* robots.txt has a group for the agent
HasGroup(lines, agent) ==
    \E k \in 1 .. Len(lines) :
        lines[k].directive = "user-agent" /\ Lower(lines[k].value) = agent

\* the Disallow prefixes of the group of the agent
GroupOf(lines, agent) ==
    {lines[k].value : k \in {i \in 1 .. Len(lines) :
        /\ lines[i].directive = "disallow"
        /\ lines[i].value # <<>>
        /\ AgentAbove(lines, i) = <<agent>>}}

SelectedGroup(lines) ==
    IF HasGroup(lines, Lower(user_agent)) THEN GroupOf(lines, Lower(user_agent))
    ELSE IF HasGroup(lines, "*") THEN GroupOf(lines, "*")
    ELSE {}

\* User-agent: * / Disallow: /private/ / Crawl-delay: 2
ExampleRules ==
    <<Line("user-agent", "*"), Line("disallow", PrivateDir),
      Line("crawl-delay", "2")>>

\* C22: is_allowed(url) returns allowed = false exactly when the path of the
\* URL starts with a Disallow prefix of the selected group, which is the
\* group of the crawler's own agent if robots.txt has one, else the group
\* of *, else empty; under the rules User-agent: *, Disallow: /private/,
\* Crawl-delay: 2 it returns (False, 2.0) for /private/page and (True, 2.0)
\* for /public.
DisallowedIffPrefixOfSelectedGroup ==
    verdict # NoVerdict =>
        /\ verdict.allowed
              = ~ \E rule \in SelectedGroup(web.robots_txt) :
                      startswith(PathOf(verdict.url), rule)
        /\ web.robots_txt = ExampleRules /\ verdict.url = PrivatePage
              => ~verdict.allowed /\ verdict.crawl_delay = 2
        /\ web.robots_txt = ExampleRules /\ verdict.url = Public
              => verdict.allowed /\ verdict.crawl_delay = 2

OwnGroupShadowsWildcard ==
    /\ HasGroup(web.robots_txt, Lower(user_agent))
    /\ PrivateDir \in GroupOf(web.robots_txt, "*")
    /\ GroupOf(web.robots_txt, Lower(user_agent)) = {SlashP}
    /\ verdict.url = Public
    /\ ~verdict.allowed

\* robots.txt disallows the URL for the crawler
Disallowed(url) ==
    \E rule \in SelectedGroup(web.robots_txt) : startswith(PathOf(url), rule)

Range(q) == {q[i] : i \in 1 .. Len(q)}

\* C21: no URL that robots.txt disallows for the crawler is returned by
\* crawl() or fetched, whether it came from a sitemap or from a link.
DisallowedNeverReturned ==
    /\ \A url \in Range(crawler.results) : ~Disallowed(url)
    /\ \A url \in Range(crawler.fetched) : ~Disallowed(url)

\* discovery finds no sitemap: robots.txt names none and no conventional
\* location answers
NoSitemapFound ==
    /\ \A k \in 1 .. Len(web.robots_txt) : web.robots_txt[k].directive # "sitemap"
    /\ \A i \in 1 .. Len(common_locations) : ~web.sitemaps[common_locations[i]].ok

\* C23: crawl() runs the link-following fallback exactly when discovery
\* finds no sitemap, and then returns at least the seed URL if the seed can
\* be fetched; when discovery finds a sitemap URL it returns the parsed
\* entries of the sitemap and follows no link.
FallbackIffNoSitemapFound ==
    crawler.pc = "done" =>
        /\ crawler.via = "links" <=> NoSitemapFound
        /\ crawler.via = "links" /\ base_url \in web.fetchable
              => base_url \in Range(crawler.results)
        /\ ~NoSitemapFound
              => /\ crawler.via = "sitemap"
                 /\ crawler.fetched = <<>>

\* the sitemap URL that discovery returned has no content
SitemapUnfetchable ==
    /\ crawler.sitemap_url # 0
    /\ ~web.sitemaps[crawler.sitemap_url].ok

\* C23 as amended: the fallback runs exactly when discovery finds no
\* sitemap or the sitemap URL it found cannot be fetched; its result then
\* starts with the seed URL if the seed can be fetched, robots.txt allows it
\* and max_pages is at least 1; when the sitemap found is fetched, crawl()
\* returns its parsed entries and follows no link.
FallbackIffNoSitemapFetched ==
    crawler.pc = "done" =>
        /\ crawler.via = "links" <=> (NoSitemapFound \/ SitemapUnfetchable)
        /\ (/\ crawler.via = "links" /\ base_url \in web.fetchable
            /\ ~Disallowed(base_url) /\ crawler.max_pages >= 1)
              => crawler.results # <<>> /\ crawler.results[1] = base_url
        /\ crawler.via = "links" /\ Disallowed(base_url)
              => crawler.results = <<>>
        /\ crawler.via = "sitemap"
              => /\ ~NoSitemapFound /\ ~SitemapUnfetchable
                 /\ crawler.fetched = <<>>
                 /\ web.sitemaps[crawler.sitemap_url].kind = "urlset"
                       => crawler.results = web.sitemaps[crawler.sitemap_url].locs

FallbackAfterDeadSitemapUrl ==
    /\ crawler.pc = "done"
    /\ crawler.via = "links"
    /\ ~NoSitemapFound
    /\ crawler.results = <<base_url>>

\* document b is listed by the index a, and both can be fetched
Listed(a, b) ==
    /\ web.sitemaps[a].ok /\ web.sitemaps[a].kind = "index"
    /\ web.sitemaps[b].ok
    /\ b \in Range(web.sitemaps[a].locs)

\* the documents reached from those of S through indexes
RECURSIVE Expanded(_)
Expanded(S) ==
    LET T == S \cup {b \in Sitemaps : \E a \in S : Listed(a, b)}
    IN  IF T = S THEN S ELSE Expanded(T)

\* C24: for a sitemap index crawl() returns the entries of every listed
\* sub-sitemap, through nested indexes: two sub-sitemaps of N entries give
\* the 2 x N entries, and a sub-sitemap that cannot be fetched adds nothing
\* and does not keep the entries of the others from being returned.
IndexIsFlattened ==
    (crawler.pc = "done" /\ crawler.via = "sitemap") =>
        LET docs == web.sitemaps
            root == docs[crawler.sitemap_url]
            entries(s) == IF docs[s].ok /\ docs[s].kind = "urlset"
                          THEN docs[s].locs ELSE <<>>
        IN  /\ Range(crawler.results)
                  = UNION {Range(entries(s)) : s \in Expanded({crawler.sitemap_url})}
            /\ \A a, b \in Sitemaps :
                  (/\ root.kind = "index" /\ root.locs = <<a, b>>
                   /\ \A s \in {a, b} : docs[s].ok => docs[s].kind = "urlset")
                  => crawler.results = entries(a) \o entries(b)

TwoSubSitemapsOfNEntries ==
    /\ crawler.pc = "done"
    /\ crawler.sitemap_url = 1
    /\ web.sitemaps[1].kind = "index" /\ web.sitemaps[1].locs = <<2, 3>>
    /\ \A s \in {2, 3} :
           /\ web.sitemaps[s].ok /\ web.sitemaps[s].kind = "urlset"
           /\ Len(web.sitemaps[s].locs) = MaxLocs
    /\ Len(crawler.results) = 2 * MaxLocs

\* the URLs within n links of the base URL, through pages that answer and
\* that robots.txt allows
RECURSIVE Within(_)
Within(n) ==
    IF n = 0 THEN {base_url}
    ELSE Within(n - 1) \cup
         UNION {web.links[p] : p \in {q \in Within(n - 1) :
                    q \in web.fetchable /\ ~Disallowed(q)}}

\* the link distance of a URL from the base URL
Distance(url) ==
    CHOOSE n \in 0 .. Cardinality(Urls) :
        url \in Within(n) /\ (n = 0 \/ url \notin Within(n - 1))

\* C25: the fallback visits URLs breadth-first from the base URL: when a
\* URL at distance d+1 has been fetched, no discovered, allowed URL at
\* distance d is still waiting to be fetched; and at most max_pages pages
\* are recorded.
BreadthFirstWithinMaxPages ==
    crawler.via = "links" =>
        /\ Len(crawler.results) <= crawler.max_pages
        /\ \A url \in Range(crawler.fetched) :
              \A waiting \in crawler.to_crawl \ Range(crawler.fetched) :
                  ~Disallowed(waiting) => Distance(url) <= Distance(waiting)
====
